---- MODULE Spec2Model ----
(***************************************************************************)
(* A model of PyGit (src/main.py): the object model (GitObject, Blob,      *)
(* Tree), the object store (.git/objects), the staging index (.git/index), *)
(* the tree builder and the garbage collector.                             *)
(*                                                                         *)
(* Python values are modelled as follows.                                  *)
(*   bytes        a sequence of byte values 0..255                         *)
(*   str          a sequence of code points (ASCII only in this model)     *)
(*   hex digest   a str of the characters 0-9 and a-f                      *)
(*   an exception [kind |-> "err", err |-> <exception class>]              *)
(*   a result     [kind |-> "ok", val |-> <value>]                         *)
(***************************************************************************)
EXTENDS Integers, Sequences, FiniteSets, TLC

VARIABLES
    gitDir,     \* whether .git exists (Repositry.init has run)
    indexFile,  \* .git/index: [kind |-> "absent"] or [kind |-> "text", text |-> tokens]
    objects,    \* .git/objects: bucket name -> (entry name -> stored bytes)
    lastOp,     \* the last operation of the command line and what it returned
    arg,        \* input of an object-model function (specification SpecObj)
    res,        \* what that function returned
    pc,         \* specification SpecConc: each process's position
    loc         \* specification SpecConc: each process's local variables

vars == <<gitDir, indexFile, objects, lastOp, arg, res, pc, loc>>

repoVars == <<gitDir, indexFile, objects, lastOp>>
objVars == <<arg, res>>
concVars == <<pc, loc>>

----------------------------------------------------------------------------
(* Results and exceptions *)

Ok(v) == [kind |-> "ok", val |-> v]
Err(e) == [kind |-> "err", err |-> e]
IsOk(r) == r.kind = "ok"
IsErr(r) == r.kind = "err"

----------------------------------------------------------------------------
(* Bytes and strings *)

NUL == 0
SP == 32
SLASH == 47

\* str(n) for n >= 0: the decimal digits of n
RECURSIVE Str(_)
Str(n) == IF n < 10 THEN <<48 + n>> ELSE Str(n \div 10) \o <<48 + (n % 10)>>

\* bytes.find(b): Python's 0-based index of the first b at or after 0-based start, -1 if none
Find(s, b, start) ==
    LET hits == {i \in (start + 1)..Len(s) : s[i] = b}
    IN IF hits = {} THEN -1
       ELSE (CHOOSE i \in hits : \A j \in hits : i <= j) - 1

\* s[:n] for a Python index n >= -1
SliceTo(s, n) == IF n >= 0 THEN SubSeq(s, 1, n) ELSE SubSeq(s, 1, Len(s) + n)

\* s[n:] for a Python index n >= 0
SliceFrom(s, n) == SubSeq(s, n + 1, Len(s))

\* str.split(sep): the parts between every occurrence of the separator
RECURSIVE Split(_, _)
Split(s, sep) ==
    LET i == Find(s, sep, 0)
    IN IF i = -1 THEN <<s>>
       ELSE <<SliceTo(s, i)>> \o Split(SliceFrom(s, i + 1), sep)

\* bytes.decode(): UTF-8; a byte >= 128 that starts no valid sequence fails
Decode(b) ==
    IF \E i \in 1..Len(b) : b[i] >= 128 THEN Err("UnicodeDecodeError") ELSE Ok(b)

\* lexicographic order on sequences of numbers (Python's order on str and bytes)
RECURSIVE LexLess(_, _)
LexLess(a, b) ==
    IF Len(b) = 0 THEN FALSE
    ELSE IF Len(a) = 0 THEN TRUE
    ELSE IF a[1] # b[1] THEN a[1] < b[1]
    ELSE LexLess(Tail(a), Tail(b))

\* a str of decimal digits, and the number it denotes
IsInteger(s) == s # <<>> /\ \A i \in 1..Len(s) : s[i] \in 48..57
RECURSIVE IntOf(_)
IntOf(s) == IF s = <<>> THEN 0 ELSE 10 * IntOf(SubSeq(s, 1, Len(s) - 1)) + (s[Len(s)] - 48)

\* int(s): an optional sign and decimal digits, ValueError otherwise
ParseInt(s) ==
    IF IsInteger(s) THEN Ok(IntOf(s))
    ELSE IF s # <<>> /\ s[1] = 45 /\ IsInteger(Tail(s)) THEN Ok(0 - IntOf(Tail(s)))
    ELSE IF s # <<>> /\ s[1] = 43 /\ IsInteger(Tail(s)) THEN Ok(IntOf(Tail(s)))
    ELSE Err("ValueError")

\* str(n) for any integer n
StrInt(n) == IF n < 0 THEN <<45>> \o Str(0 - n) ELSE Str(n)

\* s.startswith(p)
StartsWith(s, p) == Len(p) <= Len(s) /\ SubSeq(s, 1, Len(p)) = p

\* sep.join(parts)
RECURSIVE Join(_, _)
Join(parts, sep) ==
    IF parts = <<>> THEN <<>>
    ELSE IF Len(parts) = 1 THEN parts[1]
    ELSE parts[1] \o <<sep>> \o Join(Tail(parts), sep)

\* Python's index of the last b in s, -1 if none
RFind(s, b) ==
    LET hits == {i \in 1..Len(s) : s[i] = b}
    IN IF hits = {} THEN -1
       ELSE (CHOOSE i \in hits : \A j \in hits : i >= j) - 1

\* s.rsplit(sep, maxsplit): at most maxsplit splits, taken from the right
RECURSIVE RSplit(_, _, _)
RSplit(s, sep, maxsplit) ==
    LET i == RFind(s, sep)
    IN IF maxsplit = 0 \/ i = -1 THEN <<s>>
       ELSE RSplit(SliceTo(s, i), sep, maxsplit - 1) \o <<SliceFrom(s, i + 1)>>

----------------------------------------------------------------------------
(* hashlib.sha1 and zlib *)

\* Number of bytes of a digest (20 for SHA-1; the model's digest keeps 2)
DigestBytes == 2

\* the character of a hex digit, and the value of a hex character (-1: none)
HexChar(v) == IF v < 10 THEN 48 + v ELSE 87 + v
HexVal(c) == IF c >= 48 /\ c <= 57 THEN c - 48
             ELSE IF c >= 97 /\ c <= 102 THEN c - 87
             ELSE IF c >= 65 /\ c <= 70 THEN c - 55
             ELSE -1

HexDigits(n, width) == [i \in 1..width |-> HexChar((n \div (16 ^ (width - i))) % 16)]

RECURSIVE Poly(_, _)
Poly(s, h) == IF s = <<>> THEN h ELSE Poly(Tail(s), (h * 131 + s[1] + 1) % (256 ^ DigestBytes))

\* hashlib.sha1(data).hexdigest(): a fixed-width digest, collision-free on
\* the objects of the model (NoCollision below)
Sha1Hex(data) == HexDigits(Poly(data, 7), 2 * DigestBytes)

\* bytes.fromhex(h): ValueError unless h is an even number of hex characters
FromHex(h) ==
    IF Len(h) % 2 = 1 \/ \E i \in 1..Len(h) : HexVal(h[i]) = -1 THEN Err("ValueError")
    ELSE Ok([i \in 1..(Len(h) \div 2) |-> 16 * HexVal(h[2 * i - 1]) + HexVal(h[2 * i])])

\* bytes.hex()
ToHex(b) == [i \in 1..(2 * Len(b)) |->
                HexChar(IF i % 2 = 1 THEN b[(i + 1) \div 2] \div 16 ELSE b[i \div 2] % 16)]

RECURSIVE Sum(_)
Sum(s) == IF s = <<>> THEN 0 ELSE s[1] + Sum(Tail(s))

\* zlib's stream: a header byte, the data, a checksum of the data
ZHeader == 120
Adler(data) == (1 + Sum(data)) % 251
Compress(data) == <<ZHeader>> \o data \o <<Adler(data)>>
Decompress(z) ==
    IF Len(z) >= 2 /\ z[1] = ZHeader /\ z[Len(z)] = Adler(SubSeq(z, 2, Len(z) - 1))
    THEN Ok(SubSeq(z, 2, Len(z) - 1))
    ELSE Err("zlib.error")

----------------------------------------------------------------------------
(* GitObject, Blob, Tree *)

BLOB == <<98, 108, 111, 98>>
TREE == <<116, 114, 101, 101>>
COMMIT == <<99, 111, 109, 109, 105, 116>>
MODE_FILE == <<49, 48, 48, 54, 52, 52>>
MODE_DIR == <<52, 48, 48, 48, 48>>

\* The content attribute holds bytes, or (Tree.__init__) the list of entries
Bytes(b) == [kind |-> "bytes", bytes |-> b]
PyList(l) == [kind |-> "list", list |-> l]
PyLen(c) == IF c.kind = "bytes" THEN Len(c.bytes) ELSE Len(c.list)

GitObject(type, content) == [type |-> type, content |-> content]

Blob(content) == GitObject(BLOB, Bytes(content))

Header(obj) == obj.type \o <<SP>> \o Str(PyLen(obj.content)) \o <<NUL>>

\* GitObject.hash: header + self.content raises TypeError when content is a list
Hash(obj) ==
    IF obj.content.kind = "bytes"
    THEN Ok(Sha1Hex(Header(obj) \o obj.content.bytes))
    ELSE Err("TypeError")

Serialize(obj) ==
    IF obj.content.kind = "bytes"
    THEN Ok(Compress(Header(obj) \o obj.content.bytes))
    ELSE Err("TypeError")

\* bytes.rfind(b): Python's index of the last b, -1 if none
FindLast(s, b) ==
    LET hits == {i \in 1..Len(s) : s[i] = b}
    IN IF hits = {} THEN -1
       ELSE (CHOOSE i \in hits : \A j \in hits : i >= j) - 1

\* deserialize splitting at the last NUL byte
DeserializeLastNul(data) ==
    LET d == Decompress(data)
    IN IF IsErr(d) THEN d
       ELSE LET decompressed == d.val
                null_index == FindLast(decompressed, NUL)
                header == Decode(SliceTo(decompressed, null_index))
                content == SliceFrom(decompressed, null_index + 1)
            IN IF IsErr(header) THEN header
               ELSE LET parts == Split(header.val, SP)
                    IN IF Len(parts) # 2 THEN Err("ValueError")
                       ELSE Ok(GitObject(parts[1], Bytes(content)))

\* GitObject.deserialize
Deserialize(data) ==
    LET d == Decompress(data)
    IN IF IsErr(d) THEN d
       ELSE LET decompressed == d.val
                null_index == Find(decompressed, NUL, 0)
                header == Decode(SliceTo(decompressed, null_index))
                content == SliceFrom(decompressed, null_index + 1)
            IN IF IsErr(header) THEN header
               ELSE LET parts == Split(header.val, SP)
                    IN IF Len(parts) # 2 THEN Err("ValueError")
                       ELSE Ok(GitObject(parts[1], Bytes(content)))

----------------------------------------------------------------------------
(* Tree *)

\* Python's order on (mode, name, obj_hash) tuples
EntryLess(a, b) ==
    IF a[1] # b[1] THEN LexLess(a[1], b[1])
    ELSE IF a[2] # b[2] THEN LexLess(a[2], b[2])
    ELSE LexLess(a[3], b[3])

RECURSIVE Insert(_, _)
Insert(sortedList, e) ==
    IF sortedList = <<>> THEN <<e>>
    ELSE IF EntryLess(e, sortedList[1]) THEN <<e>> \o sortedList
    ELSE <<sortedList[1]>> \o Insert(Tail(sortedList), e)

\* sorted(entries)
RECURSIVE Sorted(_)
Sorted(entries) ==
    IF entries = <<>> THEN <<>> ELSE Insert(Sorted(Tail(entries)), entries[1])

\* the loop of Tree._serialize_entries over the sorted entries
RECURSIVE EncodeEntries(_)
EncodeEntries(entries) ==
    IF entries = <<>> THEN Ok(<<>>)
    ELSE LET e == entries[1]
             raw == FromHex(e[3])
             rest == EncodeEntries(Tail(entries))
         IN IF IsErr(raw) THEN raw
            ELSE IF IsErr(rest) THEN rest
            ELSE Ok(e[1] \o <<SP>> \o e[2] \o <<NUL>> \o raw.val \o rest.val)

\* Tree._serialize_entries
SerializeEntries(entries) == EncodeEntries(Sorted(entries))

\* The arguments of a call Tree(...): Tree() passes none
NoArgs == [given |-> FALSE]
Args(entries) == [given |-> TRUE, entries |-> entries]

\* Tree.__init__(self, entries): entries has no default value; the encoding
\* is computed, and the object's content is set to the entries instead
TreeInit(args) ==
    IF ~args.given THEN Err("TypeError")
    ELSE LET content == SerializeEntries(args.entries)
         IN IF IsErr(content) THEN content
            ELSE Ok([type |-> TREE, entries |-> args.entries,
                     content |-> PyList(args.entries)])

\* Tree.add_entry
AddEntry(tree, mode, name, obj_hash) ==
    LET entries == Append(tree.entries, <<mode, name, obj_hash>>)
        content == SerializeEntries(entries)
    IN IF IsErr(content) THEN content
       ELSE Ok([tree EXCEPT !.entries = entries, !.content = Bytes(content.val)])

\* the loop of Tree.from_content (lines 69-79), i a Python index; a digest
\* takes DigestBytes bytes (20 in the source)
RECURSIVE FromContentLoop(_, _, _)
FromContentLoop(content, i, entries) ==
    IF ~(i < Len(content)) THEN Ok(entries)
    ELSE LET null_index == Find(content, NUL, i)
         IN IF null_index = -1 THEN Ok(entries)
            ELSE LET mode_name == Decode(SubSeq(content, i + 1, null_index))
                 IN IF IsErr(mode_name) THEN mode_name
                    ELSE LET sp == Find(mode_name.val, SP, 0)
                             last == IF null_index + 1 + DigestBytes < Len(content)
                                     THEN null_index + 1 + DigestBytes ELSE Len(content)
                             obj_hash == ToHex(SubSeq(content, null_index + 2, last))
                         IN IF sp = -1 THEN Err("ValueError")
                            ELSE FromContentLoop(content, null_index + 1 + DigestBytes,
                                     Append(entries, <<SliceTo(mode_name.val, sp),
                                                       SliceFrom(mode_name.val, sp + 1),
                                                       obj_hash>>))

\* Tree.from_content: tree = cls() calls Tree.__init__ without entries
TreeFromContent(content) ==
    LET tree == TreeInit(NoArgs)
    IN IF IsErr(tree) THEN tree
       ELSE LET read == FromContentLoop(content, 0, tree.val.entries)
            IN IF IsErr(read) THEN read
               ELSE Ok([tree.val EXCEPT !.entries = read.val])

----------------------------------------------------------------------------
(* Commit *)

LF == 10

\* a value that is a str, an int or None
PyStr(s) == [kind |-> "str", s |-> s]
PyInt(n) == [kind |-> "int", int |-> n]
None == [kind |-> "None"]

\* a value formatted in an f-string
Format(v) ==
    IF v.kind = "str" THEN v.s
    ELSE IF v.kind = "int" THEN StrInt(v.int)
    ELSE <<78, 111, 110, 101>>

\* the truth value of a timestamp: None and 0 are false
Truthy(v) == v.kind = "int" /\ v.int # 0

TREE_ == <<116, 114, 101, 101, SP>>
PARENT_ == <<112, 97, 114, 101, 110, 116, SP>>
AUTHOR_ == <<97, 117, 116, 104, 111, 114, SP>>
COMMITTER_ == <<99, 111, 109, 109, 105, 116, 116, 101, 114, SP>>
UTC == <<SP, 43, 48, 48, 48, 48>>

\* Commit._serialize_commit
SerializeCommit(c) ==
    Join(<<TREE_ \o Format(c.tree_hash)>>
         \o [i \in 1..Len(c.parent_hashes) |-> PARENT_ \o c.parent_hashes[i]]
         \o <<AUTHOR_ \o Format(c.author) \o <<SP>> \o Format(c.timestamp) \o UTC,
              COMMITTER_ \o Format(c.committer) \o <<SP>> \o Format(c.timestamp) \o UTC,
              <<>>,
              Format(c.message)>>,
         LF)

\* Commit.__init__, time.time() reading now
CommitInit(tree_hash, parent_hashes, author, committer, message, timestamp, now) ==
    LET c == [type |-> COMMIT, tree_hash |-> tree_hash, parent_hashes |-> parent_hashes,
              author |-> author, committer |-> committer, message |-> message,
              timestamp |-> IF Truthy(timestamp) THEN timestamp ELSE PyInt(now)]
    IN [type |-> COMMIT, tree_hash |-> tree_hash, parent_hashes |-> parent_hashes,
        author |-> author, committer |-> committer, message |-> message,
        timestamp |-> c.timestamp, content |-> Bytes(SerializeCommit(c))]

Unbound == [kind |-> "unbound"]

\* the loop of Commit.from_content over the lines (lines 116-130), i a
\* Python index
RECURSIVE CommitLines(_, _, _)
CommitLines(lines, i, st) ==
    IF i >= Len(lines) THEN Ok(st)
    ELSE LET line == lines[i + 1]
         IN IF StartsWith(line, TREE_)
            THEN CommitLines(lines, i + 1, [st EXCEPT !.tree_hash = PyStr(SliceFrom(line, 5))])
            ELSE IF StartsWith(line, PARENT_)
            THEN CommitLines(lines, i + 1,
                     [st EXCEPT !.parent_hashes = Append(st.parent_hashes, SliceFrom(line, 7))])
            ELSE IF StartsWith(line, AUTHOR_)
            THEN LET author_parts == RSplit(SliceFrom(line, 7), SP, 2)
                 IN IF Len(author_parts) < 2 THEN Err("IndexError")
                    ELSE IF IsErr(ParseInt(author_parts[2])) THEN ParseInt(author_parts[2])
                    ELSE CommitLines(lines, i + 1,
                             [st EXCEPT !.author = PyStr(author_parts[1]),
                                        !.timestamp = PyInt(ParseInt(author_parts[2]).val)])
            ELSE IF StartsWith(line, COMMITTER_)
            THEN CommitLines(lines, i + 1,
                     [st EXCEPT !.committer = PyStr(RSplit(SliceFrom(line, 10), SP, 2)[1])])
            ELSE IF line = <<>>
            THEN Ok([st EXCEPT !.msg_start_index = i + 1])
            ELSE CommitLines(lines, i + 1, st)

\* Commit.from_content, time.time() reading now
CommitFromContent(content, now) ==
    LET text == Decode(content)
    IN IF IsErr(text) THEN text
       ELSE LET lines == Split(text.val, LF)
                read == CommitLines(lines, 0,
                            [tree_hash |-> None, parent_hashes |-> <<>>, author |-> None,
                             committer |-> None, timestamp |-> Unbound, msg_start_index |-> 0])
            IN IF IsErr(read) THEN read
               ELSE LET st == read.val
                        message == Join(SubSeq(lines, st.msg_start_index + 1, Len(lines)), LF)
                    IN IF st.timestamp.kind = "unbound" THEN Err("UnboundLocalError")
                       ELSE Ok(CommitInit(st.tree_hash, st.parent_hashes, st.author,
                                          st.committer, PyStr(message), st.timestamp, now))

----------------------------------------------------------------------------
(* The object store: .git/objects/<first two hex digits>/<the other digits> *)
(* objects.dirs is the set of bucket directories, objects.files the set of  *)
(* files [dir, name, data] in them.                                         *)

EmptyStore == [dirs |-> {}, files |-> {}]

BucketOf(h) == SubSeq(h, 1, 2)
EntryOf(h) == SubSeq(h, 3, Len(h))

\* obj_file.exists()
Exists(objs, h) == \E f \in objs.files : f.dir = BucketOf(h) /\ f.name = EntryOf(h)

\* every digest stored, as gc names it: obj_dir.name + obj_file.name
Stored(objs) == {f.dir \o f.name : f \in objs.files}

StoredBytes(objs, h) ==
    (CHOOSE f \in objs.files : f.dir = BucketOf(h) /\ f.name = EntryOf(h)).data

\* obj_dir.mkdir(exist_ok=True)
Mkdir(objs, b) == [objs EXCEPT !.dirs = objs.dirs \cup {b}]

\* obj_file.write_bytes(data): creates the file or replaces its content
WriteBytes(objs, h, data) ==
    [objs EXCEPT !.files = {f \in objs.files : ~(f.dir = BucketOf(h) /\ f.name = EntryOf(h))}
                           \cup {[dir |-> BucketOf(h), name |-> EntryOf(h), data |-> data]}]

\* store_object without the test that the entry exists
StoreObjectAlways(objs, obj) ==
    LET obj_hash == Hash(obj)
    IN IF IsErr(obj_hash) THEN [objs |-> objs, ret |-> obj_hash, wrote |-> FALSE]
       ELSE [objs |-> WriteBytes(Mkdir(objs, BucketOf(obj_hash.val)), obj_hash.val,
                                 Serialize(obj).val),
             ret |-> obj_hash, wrote |-> TRUE]

\* Repositry.store_object: [objs: the store afterwards, ret: the digest or
\* the exception, wrote: whether write_bytes ran]
StoreObject(objs, obj) ==
    LET obj_hash == Hash(obj)
    IN IF IsErr(obj_hash) THEN [objs |-> objs, ret |-> obj_hash, wrote |-> FALSE]
       ELSE IF ~Exists(objs, obj_hash.val)
            THEN [objs |-> WriteBytes(Mkdir(objs, BucketOf(obj_hash.val)), obj_hash.val,
                                      Serialize(obj).val),
                  ret |-> obj_hash, wrote |-> TRUE]
            ELSE [objs |-> objs, ret |-> obj_hash, wrote |-> FALSE]

----------------------------------------------------------------------------
(* The staging index: a dict, kept as the sequence of its (key, value)      *)
(* pairs in insertion order, and its JSON text                              *)

Keys(d) == {d[i][1] : i \in 1..Len(d)}
Values(d) == {d[i][2] : i \in 1..Len(d)}
Get(d, k) == d[CHOOSE i \in 1..Len(d) : d[i][1] = k][2]

\* d[k] = v: a new key is appended, an old key keeps its place
DictSet(d, k, v) ==
    IF k \in Keys(d) THEN [i \in 1..Len(d) |-> IF d[i][1] = k THEN <<k, v>> ELSE d[i]]
    ELSE Append(d, <<k, v>>)

\* JSON text as its tokens
TLBrace == [t |-> "{"]
TRBrace == [t |-> "}"]
TColon == [t |-> ":"]
TComma == [t |-> ","]
TStr(s) == [t |-> "str", s |-> s]

RECURSIVE DumpItems(_)
DumpItems(d) ==
    IF d = <<>> THEN <<>>
    ELSE <<TStr(d[1][1]), TColon, TStr(d[1][2])>>
         \o (IF Len(d) > 1 THEN <<TComma>> ELSE <<>>) \o DumpItems(Tail(d))

\* json.dumps(index, indent=2)
JsonDumps(d) == <<TLBrace>> \o DumpItems(d) \o <<TRBrace>>

\* the members of an object, the tokens after its opening brace
RECURSIVE ParseItems(_, _)
ParseItems(toks, d) ==
    IF Len(toks) >= 4 /\ toks[1].t = "str" /\ toks[2].t = ":" /\ toks[3].t = "str"
    THEN LET d2 == DictSet(d, toks[1].s, toks[3].s)
         IN IF toks[4].t = "}" /\ Len(toks) = 4 THEN Ok(d2)
            ELSE IF toks[4].t = "," THEN ParseItems(SubSeq(toks, 5, Len(toks)), d2)
            ELSE Err("JSONDecodeError")
    ELSE Err("JSONDecodeError")

\* json.loads(text)
JsonLoads(toks) ==
    IF Len(toks) >= 2 /\ toks[1].t = "{"
    THEN IF Len(toks) = 2 /\ toks[2].t = "}" THEN Ok(<<>>)
         ELSE ParseItems(Tail(toks), <<>>)
    ELSE Err("JSONDecodeError")

NoFile == [kind |-> "absent"]
TextFile(text) == [kind |-> "text", text |-> text]

\* Path.write_text(text) on a file: the file afterwards
WriteText(file, text) == TextFile(text)

\* d.update(e)
RECURSIVE Update(_, _)
Update(d, e) == IF e = <<>> THEN d ELSE Update(DictSet(d, e[1][1], e[1][2]), Tail(e))

\* save_index keeping the entries of the file that the mapping does not have
SaveIndexMerging(file, index) ==
    WriteText(file, JsonDumps(Update(IF file.kind = "absent" \/ IsErr(JsonLoads(file.text))
                                     THEN <<>> ELSE JsonLoads(file.text).val,
                                     index)))

\* save_index writing str(index), which is not JSON, instead of json.dumps
SaveIndexRepr(file, index) ==
    WriteText(file, [i \in 1..Len(JsonDumps(index)) |->
                        IF JsonDumps(index)[i].t = "str"
                        THEN [t |-> "repr", s |-> JsonDumps(index)[i].s]
                        ELSE JsonDumps(index)[i]])

\* Repositry.save_index on the index file: the file afterwards
SaveIndex(file, index) == WriteText(file, JsonDumps(index))

\* load_index returning a fresh mapping whatever the file holds
LoadIndexFresh(file) == <<>>

\* Repositry.load_index
LoadIndex(file) ==
    IF file.kind = "absent" THEN <<>>
    ELSE LET parsed == JsonLoads(file.text)
         IN IF IsErr(parsed) THEN <<>> ELSE parsed.val

----------------------------------------------------------------------------
(* Repositry.gc *)

\* the orders in which iterdir() may list the members S of a directory
RECURSIVE Listings(_)
Listings(S) ==
    IF S = {} THEN {<<>>}
    ELSE UNION {{<<x>> \o l : l \in Listings(S \ {x})} : x \in S}

\* rmdir leaving the directory
RmdirKeep(objs, obj_dir) == objs

\* obj_file.unlink() and obj_dir.rmdir()
Unlink(objs, obj_file) == [objs EXCEPT !.files = objs.files \ {obj_file}]
Rmdir(objs, obj_dir) == [objs EXCEPT !.dirs = objs.dirs \ {obj_dir}]

\* used_hashes taken from the paths of the index
UsedHashesKeys(index) == Keys(index)

\* used_hashes = set(index.values())
UsedHashes(index) == Values(index)

\* The loop over the files of one bucket. failing: the digests whose file
\* cannot be unlinked; unlink raises there and gc ends with the exception.
\* st.removed: the digests printed as "Removed unused object".
RECURSIVE SweepFiles(_, _, _, _)
SweepFiles(st, used_hashes, listing, failing) ==
    IF listing = <<>> THEN [st EXCEPT !.ret = Ok("None")]
    ELSE LET obj_file == listing[1]
             full_hash == obj_file.dir \o obj_file.name
         IN IF full_hash \notin used_hashes
            THEN IF full_hash \in failing
                 THEN [st EXCEPT !.ret = Err("PermissionError")]
                 ELSE SweepFiles([st EXCEPT !.objs = Unlink(st.objs, obj_file),
                                            !.removed = st.removed \cup {full_hash}],
                                 used_hashes, Tail(listing), failing)
            ELSE SweepFiles(st, used_hashes, Tail(listing), failing)

\* The loop over the buckets, listed in the order dirs, their files in the
\* order files
RECURSIVE SweepDirs(_, _, _, _, _)
SweepDirs(st, used_hashes, dirs, files, failing) ==
    IF dirs = <<>> THEN [st EXCEPT !.ret = Ok("None")]
    ELSE LET obj_dir == dirs[1]
         IN IF Len(obj_dir) # 2
            THEN SweepDirs(st, used_hashes, Tail(dirs), files, failing)
            ELSE LET swept == SweepFiles(st, used_hashes,
                                         SelectSeq(files, LAMBDA f : f.dir = obj_dir), failing)
                     after == IF ~\E f \in swept.objs.files : f.dir = obj_dir
                              THEN [swept EXCEPT !.objs = Rmdir(swept.objs, obj_dir)]
                              ELSE swept
                 IN IF IsErr(swept.ret) THEN swept
                    ELSE SweepDirs(after, used_hashes, Tail(dirs), files, failing)

\* gc leaving the store as it is
GcSkip(file, objs, dirs, files, failing) ==
    [objs |-> objs, removed |-> {}, ret |-> Ok("None")]

\* Repositry.gc: [objs: the store afterwards, removed: the digests removed,
\* ret: None or the exception]
Gc(file, objs, dirs, files, failing) ==
    LET index == LoadIndex(file)
    IN SweepDirs([objs |-> objs, removed |-> {}, ret |-> Ok("None")],
                 UsedHashes(index), dirs, files, failing)

----------------------------------------------------------------------------
(* Repositry.create_tree_from_index *)

(* A dict of nested dicts is kept as the sequence of its nodes <<path,     *)
(* value>> in insertion order: path is the sequence of keys leading to the *)
(* node, value a str or the mark of a dict.                                *)
VStr(s) == [kind |-> "str", s |-> s]
VDict == [kind |-> "dict"]

IsPrefix(p, q) == Len(p) <= Len(q) /\ SubSeq(q, 1, Len(p)) = p
HasNode(nodes, p) == \E i \in 1..Len(nodes) : nodes[i][1] = p
NodeVal(nodes, p) == nodes[CHOOSE i \in 1..Len(nodes) : nodes[i][1] = p][2]

\* d[key] = value at path p: a new key is appended; an old key keeps its
\* place and loses what was below it
SetNode(nodes, p, v) ==
    IF HasNode(nodes, p)
    THEN LET put == [i \in 1..Len(nodes) |-> IF nodes[i][1] = p THEN <<p, v>> ELSE nodes[i]]
         IN SelectSeq(put, LAMBDA n : n[1] = p \/ ~IsPrefix(p, n[1]))
    ELSE Append(nodes, <<p, v>>)

\* the children of node p, in the order of the dict
Children(nodes, p) == SelectSeq(nodes, LAMBDA n : Len(n[1]) = Len(p) + 1 /\ IsPrefix(p, n[1]))

\* for part in parts[1:-1] (lines 301-305): indexing a str raises TypeError
RECURSIVE Descend(_, _, _)
Descend(dirs, curr, middle) ==
    IF middle = <<>> THEN Ok([dirs |-> dirs, curr |-> curr])
    ELSE IF NodeVal(dirs, curr).kind = "str" THEN Err("TypeError")
    ELSE LET next == Append(curr, middle[1])
         IN Descend(IF ~HasNode(dirs, next) THEN SetNode(dirs, next, VDict) ELSE dirs,
                    next, Tail(middle))

\* the loop over index.items() (lines 289-307)
RECURSIVE Partition(_, _, _)
Partition(items, files, dirs) ==
    IF items = <<>> THEN Ok([files |-> files, dirs |-> dirs])
    ELSE LET file_path == items[1][1]
             blob_hash == items[1][2]
             parts == Split(file_path, SLASH)
         IN IF Len(parts) = 1
            THEN Partition(Tail(items), DictSet(files, parts[1], blob_hash), dirs)
            ELSE LET dir_name == parts[1]
                     dirs1 == IF ~HasNode(dirs, <<dir_name>>)
                              THEN SetNode(dirs, <<dir_name>>, VDict) ELSE dirs
                     walked == Descend(dirs1, <<dir_name>>, SubSeq(parts, 2, Len(parts) - 1))
                 IN IF IsErr(walked) THEN walked
                    ELSE IF NodeVal(walked.val.dirs, walked.val.curr).kind = "str"
                         THEN Err("TypeError")
                    ELSE Partition(Tail(items), files,
                                   SetNode(walked.val.dirs,
                                           Append(walked.val.curr, parts[Len(parts)]),
                                           VStr(blob_hash)))

\* for dir_name, dir_contents in dirs (lines 323-324): the loop runs over
\* the keys of dirs and unpacks each key, a str, into two names
RECURSIVE Unpack(_, _)
Unpack(keys, root_entries) ==
    IF keys = <<>> THEN Ok(root_entries)
    ELSE LET key == keys[1]
         IN IF Len(key) # 2 THEN Err("ValueError")
            ELSE Unpack(Tail(keys), SetNode(root_entries, <<<<key[1]>>>>, VStr(<<key[2]>>)))

\* create_tree_recursive on the dict at node p (lines 309-320):
\* [objs: the store afterwards, ret: the digest of the tree or the exception]
RECURSIVE CreateTreeRecursive(_, _, _)
RECURSIVE TreeLoop(_, _, _, _)
TreeLoop(nodes, kids, tree, objs) ==
    IF kids = <<>> THEN StoreObject(objs, tree)
    ELSE LET path == kids[1][1]
             name == path[Len(path)]
             value == kids[1][2]
         IN IF value.kind = "str"
            THEN LET added == AddEntry(tree, MODE_FILE, name, value.s)
                 IN IF IsErr(added) THEN [objs |-> objs, ret |-> added, wrote |-> FALSE]
                    ELSE TreeLoop(nodes, Tail(kids), added.val, objs)
            ELSE LET sub == CreateTreeRecursive(nodes, path, objs)
                     added == AddEntry(tree, MODE_DIR, name, sub.ret.val)
                 IN IF IsErr(sub.ret) THEN sub
                    ELSE IF IsErr(added) THEN [objs |-> sub.objs, ret |-> added, wrote |-> FALSE]
                    ELSE TreeLoop(nodes, Tail(kids), added.val, sub.objs)

CreateTreeRecursive(nodes, p, objs) ==
    LET tree == TreeInit(NoArgs)
    IN IF IsErr(tree) THEN [objs |-> objs, ret |-> tree, wrote |-> FALSE]
       ELSE TreeLoop(nodes, Children(nodes, p), tree.val, objs)

\* Repositry.create_tree_from_index:
\* [objs: the store afterwards, ret: the root digest or the exception]
CreateTreeFromIndex(file, objs) ==
    LET index == LoadIndex(file)
    IN IF index = <<>>
       THEN LET tree == TreeInit(NoArgs)
            IN IF IsErr(tree) THEN [objs |-> objs, ret |-> tree, wrote |-> FALSE]
               ELSE StoreObject(objs, tree.val)
       ELSE LET parted == Partition(index, <<>>, <<>>)
            IN IF IsErr(parted) THEN [objs |-> objs, ret |-> parted, wrote |-> FALSE]
               ELSE LET files == parted.val.files
                        dirs == parted.val.dirs
                        top == Children(dirs, <<>>)
                        root_entries ==
                            Unpack([i \in 1..Len(top) |-> top[i][1][1]],
                                   [i \in 1..Len(files) |-> <<<<files[i][1]>>, VStr(files[i][2])>>])
                    IN IF IsErr(root_entries)
                       THEN [objs |-> objs, ret |-> root_entries, wrote |-> FALSE]
                       ELSE CreateTreeRecursive(root_entries.val, <<>>, objs)

----------------------------------------------------------------------------
(* The command line and the working directory *)

\* Bound of the model: how many unlinks may fail during one gc
MaxFailing == 1

\* the contents a file of the working directory may have: "" and "h"
FileContents == {<<>>, <<104>>}

\* the files the working directory may hold: a, dd/b, a/b (a is a file at
\* one time and a directory at another)
WFiles == {<<97>>, <<100, 100, SLASH, 98>>, <<97, SLASH, 98>>}
\* a file that add_directory skips: .vscode/s
SkippedFile == <<46, 118, 115, 99, 111, 100, 101, SLASH, 115>>
\* the directories given to add: "." and "dd"
DirArgs == {<<46>>, <<100, 100>>}

SkipNames == {<<46, 103, 105, 116>>, <<46, 118, 115, 99, 111, 100, 101>>}

\* pathlib: the segments of self.path / path below the repository
Resolve(path) == SelectSeq(Split(path, SLASH), LAMBDA seg : seg # <<>> /\ seg # <<46>>)

\* two files cannot both exist when one is a directory of the other
Conflict(p, q) == p # q /\ IsPrefix(Resolve(p), Resolve(q))

\* what full_path.rglob("*") may yield for a directory: the files below it,
\* with their contents, in any order; the working directory holds .vscode/s
DirListings(path) ==
    LET under == {w \in WFiles : IsPrefix(Resolve(path), Resolve(w))}
        trees == {S \in SUBSET under : \A p, q \in S : ~Conflict(p, q)}
        skipped == IF Resolve(path) = <<>> THEN <<<<SkippedFile, <<>>>>>> ELSE <<>>
    IN UNION {UNION {{skipped \o [i \in 1..Len(l) |-> <<l[i], c[l[i]]>>] : c \in [S -> FileContents]}
                     : l \in Listings(S)} : S \in trees}

DirListingsOf == [path \in DirArgs |-> DirListings(path)]

\* one listing of the set S
RECURSIVE SeqOf(_)
SeqOf(S) == IF S = {} THEN <<>> ELSE LET x == CHOOSE x \in S : TRUE IN <<x>> \o SeqOf(S \ {x})

\* the orders in which gc may meet the files: the order makes a difference
\* only among the files it unlinks, and only when an unlink fails
FileOrders(objs, used_hashes, failing) ==
    LET unused == {f \in objs.files : f.dir \o f.name \notin used_hashes}
    IN IF failing = {} THEN {SeqOf(objs.files)}
       ELSE {l \o SeqOf(objs.files \ unused) : l \in Listings(unused)}

\* the buckets in the order of their first file in the listing files, then
\* the buckets without a file
RECURSIVE DirsOf(_, _)
DirsOf(files, seen) ==
    IF files = <<>> THEN <<>>
    ELSE IF files[1].dir \in seen THEN DirsOf(Tail(files), seen)
    ELSE <<files[1].dir>> \o DirsOf(Tail(files), seen \cup {files[1].dir})
DirOrder(objs, files) ==
    DirsOf(files, {}) \o SeqOf(objs.dirs \ {f.dir : f \in objs.files})

\* the sets of files whose unlink fails during one gc
Failings(objs, file) ==
    {F \in SUBSET (Stored(objs) \ UsedHashes(LoadIndex(file))) : Cardinality(F) <= MaxFailing}

NoOp == [op |-> "none"]

\* Repositry.init
RepoInit ==
    /\ IF gitDir
       THEN /\ UNCHANGED <<gitDir, indexFile, objects>>
            /\ lastOp' = [op |-> "init", ret |-> Ok(FALSE)]
       ELSE /\ gitDir' = TRUE
            /\ objects' = EmptyStore
            /\ indexFile' = SaveIndex(indexFile, <<>>)
            /\ lastOp' = [op |-> "init", ret |-> Ok(TRUE)]
    /\ UNCHANGED <<objVars, concVars>>

\* Repositry.store_object called with obj. existed: whether the entry was
\* stored before the call; changed: whether the call changed the store.
Put(obj) ==
    /\ gitDir
    /\ LET stored == StoreObject(objects, obj)
       IN /\ objects' = stored.objs
          /\ lastOp' = [op |-> "store_object", obj |-> obj, ret |-> stored.ret,
                        wrote |-> stored.wrote,
                        existed |-> IsOk(Hash(obj)) /\ Exists(objects, Hash(obj).val),
                        changed |-> stored.objs # objects]
    /\ UNCHANGED <<gitDir, indexFile, objVars, concVars>>

\* Repositry.add_file(path), the file holding content
AddFile(path, content) ==
    /\ gitDir
    /\ LET blob == Blob(content)
           stored == StoreObject(objects, blob)
           blob_hash == stored.ret.val
           index == DictSet(LoadIndex(indexFile), path, blob_hash)
           saved == SaveIndex(indexFile, index)
       IN \E failing \in Failings(stored.objs, saved) :
          \E files \in FileOrders(stored.objs, UsedHashes(index), failing) :
             LET swept == Gc(saved, stored.objs, DirOrder(stored.objs, files), files, failing)
             IN /\ indexFile' = saved
                /\ objects' = swept.objs
                /\ lastOp' = [op |-> "add_file", path |-> path, content |-> content,
                              ret |-> swept.ret]
    /\ UNCHANGED <<gitDir, objVars, concVars>>

\* the loop of add_directory over rglob (lines 242-255)
RECURSIVE AddLoop(_, _, _)
AddLoop(listing, index, objs) ==
    IF listing = <<>> THEN [index |-> index, objs |-> objs]
    ELSE LET file_path == listing[1][1]
             content == listing[1][2]
             parts == Split(file_path, SLASH)
         IN IF \E i \in 1..Len(parts) : parts[i] \in SkipNames
            THEN AddLoop(Tail(listing), index, objs)
            ELSE LET stored == StoreObject(objs, Blob(content))
                 IN AddLoop(Tail(listing), DictSet(index, file_path, stored.ret.val),
                            stored.objs)

\* Repositry.add_directory(path), rglob yielding listing
AddDirectory(path, listing) ==
    /\ gitDir
    /\ LET added == AddLoop(listing, LoadIndex(indexFile), objects)
           saved == SaveIndex(indexFile, added.index)
       IN \E failing \in Failings(added.objs, saved) :
          \E files \in FileOrders(added.objs, UsedHashes(added.index), failing) :
             LET swept == Gc(saved, added.objs, DirOrder(added.objs, files), files, failing)
             IN /\ indexFile' = saved
                /\ objects' = swept.objs
                /\ lastOp' = [op |-> "add_directory", path |-> path, ret |-> swept.ret]
    /\ UNCHANGED <<gitDir, objVars, concVars>>

\* add_path, add_file or add_directory on a path that does not exist
AddMissing(path) ==
    /\ gitDir
    /\ lastOp' = [op |-> "add_path", ret |-> Err("FileNotFoundError")]
    /\ UNCHANGED <<gitDir, indexFile, objects, objVars, concVars>>

\* Repositry.create_tree_from_index
BuildTree ==
    /\ gitDir
    /\ LET built == CreateTreeFromIndex(indexFile, objects)
       IN /\ objects' = built.objs
          /\ lastOp' = [op |-> "create_tree_from_index", ret |-> built.ret]
    /\ UNCHANGED <<gitDir, indexFile, objVars, concVars>>

\* Repositry.gc
Collect ==
    /\ gitDir
    /\ \E failing \in Failings(objects, indexFile) :
       \E files \in FileOrders(objects, UsedHashes(LoadIndex(indexFile)), failing) :
          LET swept == Gc(indexFile, objects, DirOrder(objects, files), files, failing)
          IN /\ objects' = swept.objs
             /\ lastOp' = [op |-> "gc", removed |-> swept.removed, failing |-> failing,
                           ret |-> swept.ret]
    /\ UNCHANGED <<gitDir, indexFile, objVars, concVars>>

\* the objects given to store_object directly: the blobs, a Tree filled by
\* add_entry, and a Tree as its constructor leaves it
PutInputs ==
    {Blob(c) : c \in FileContents}
    \cup {AddEntry(TreeInit(Args(<<>>)).val, MODE_FILE, <<97>>, Hash(Blob(<<>>)).val).val,
          TreeInit(Args(<<>>)).val}

Init ==
    /\ gitDir = FALSE
    /\ indexFile = NoFile
    /\ objects = EmptyStore
    /\ lastOp = NoOp
    /\ arg = NoOp
    /\ res = NoOp
    /\ pc = <<>>
    /\ loc = <<>>

Next ==
    \/ RepoInit
    \/ \E obj \in PutInputs : Put(obj)
    \/ \E path \in WFiles, content \in FileContents : AddFile(path, content)
    \/ \E path \in DirArgs : \E listing \in DirListingsOf[path] : AddDirectory(path, listing)
    \/ \E path \in WFiles : AddMissing(path)
    \/ BuildTree
    \/ Collect

Spec == Init /\ [][Next]_vars

----------------------------------------------------------------------------
(* Specification SpecObj: the functions of the object model applied to     *)
(* inputs drawn from bounded sets                                          *)

\* Bounds of the model: the longest content, the longest decompressed
\* stream, the longest list of entries
MaxContentLen == 2
MaxRawLen == 4
MaxEntries == 2
\* the longest list of parents of a Commit
MaxParents == 1

SeqsUpTo(S, n) == UNION {[1..k -> S] : k \in 0..n}

\* content bytes: NUL, space, "1", "h"
ContentBytes == {NUL, SP, 49, 104}
\* bytes of a decompressed stream: NUL, space, "1", "b", and 0xff
RawBytes == {NUL, SP, 49, 98, 255}

EntryInputs ==
    {<<mode, name, h>> : mode \in {MODE_FILE, MODE_DIR}, name \in {<<97>>, <<98>>},
                         h \in {Hash(Blob(c)).val : c \in FileContents}}

\* the digests of the blobs of the model
Digests == {Hash(Blob(c)).val : c \in FileContents}

\* authors "A" and "A B"; messages "", "m" and "m", a blank line, "n";
\* timestamps 0, 1 and 10; the clock reads 1000 when the Commit is made
CommitInputs ==
    {[kind |-> "commit", tree_hash |-> t, parent_hashes |-> ps, author |-> a,
      committer |-> <<67>>, message |-> m, timestamp |-> ts, now |-> 1000] :
        t \in Digests, ps \in SeqsUpTo(Digests, MaxParents),
        a \in {<<65>>, <<65, SP, 66>>},
        m \in {<<>>, <<109>>, <<109, LF, LF, 110>>},
        ts \in {0, 1, 10}}

ObjInputs ==
    {[kind |-> "obj", type |-> t, content |-> c] :
        t \in {BLOB, TREE, COMMIT}, c \in SeqsUpTo(ContentBytes, MaxContentLen)}
    \cup {[kind |-> "raw", data |-> d] : d \in SeqsUpTo(RawBytes, MaxRawLen)}
    \cup {[kind |-> "entries", entries |-> l] : l \in SeqsUpTo(EntryInputs, MaxEntries)}
    \cup CommitInputs

Reverse(l) == [i \in 1..Len(l) |-> l[Len(l) + 1 - i]]

\* what is seen of a Tree: its content, its digest, and the store after
\* store_object on an empty store
Probe(tree) ==
    IF IsErr(tree) THEN [built |-> tree]
    ELSE [built |-> Ok("Tree"), content |-> tree.val.content, digest |-> Hash(tree.val),
          stored |-> StoreObject(EmptyStore, tree.val)]

\* Tree([]) followed by add_entry for each entry of the list
RECURSIVE AddAll(_, _)
AddAll(tree, entries) ==
    IF entries = <<>> \/ IsErr(tree) THEN tree
    ELSE AddAll(AddEntry(tree.val, entries[1][1], entries[1][2], entries[1][3]), Tail(entries))

\* deserialize(serialize(obj))
RoundTrip ==
    /\ arg.kind = "obj" /\ res = NoOp
    /\ LET obj == GitObject(arg.type, Bytes(arg.content))
       IN res' = [op |-> "roundtrip", out |-> Deserialize(Serialize(obj).val)]
    /\ UNCHANGED <<arg, repoVars, concVars>>

\* deserialize of a stream that decompresses to arg.data
DeserializeRaw ==
    /\ arg.kind = "raw" /\ res = NoOp
    /\ res' = [op |-> "deserialize", out |-> Deserialize(Compress(arg.data))]
    /\ UNCHANGED <<arg, repoVars, concVars>>

\* deserialize of the bytes arg.data as they are
DeserializeBytes ==
    /\ arg.kind = "raw" /\ res = NoOp
    /\ res' = [op |-> "deserialize_bytes", out |-> Deserialize(arg.data)]
    /\ UNCHANGED <<arg, repoVars, concVars>>

\* Tree(entries) and Tree(the entries in the opposite order)
TreeByConstructor ==
    /\ arg.kind = "entries" /\ res = NoOp
    /\ res' = [op |-> "tree_init",
               fwd |-> Probe(TreeInit(Args(arg.entries))),
               rev |-> Probe(TreeInit(Args(Reverse(arg.entries))))]
    /\ UNCHANGED <<arg, repoVars, concVars>>

\* Tree([]) filled by add_entry, in the order of the list and in the opposite order
TreeByAddEntry ==
    /\ arg.kind = "entries" /\ res = NoOp
    /\ res' = [op |-> "add_entry",
               fwd |-> Probe(AddAll(TreeInit(Args(<<>>)), arg.entries)),
               rev |-> Probe(AddAll(TreeInit(Args(<<>>)), Reverse(arg.entries)))]
    /\ UNCHANGED <<arg, repoVars, concVars>>

\* Tree.from_content(Tree(entries)._serialize_entries())
TreeRoundTrip ==
    /\ arg.kind = "entries" /\ res = NoOp
    /\ res' = [op |-> "tree_roundtrip",
               out |-> TreeFromContent(SerializeEntries(arg.entries).val)]
    /\ UNCHANGED <<arg, repoVars, concVars>>

\* Commit.from_content(Commit(...).content), the clock one second later
CommitRoundTrip ==
    /\ arg.kind = "commit" /\ res = NoOp
    /\ LET commit == CommitInit(PyStr(arg.tree_hash), arg.parent_hashes, PyStr(arg.author),
                                PyStr(arg.committer), PyStr(arg.message),
                                PyInt(arg.timestamp), arg.now)
       IN res' = [op |-> "commit_roundtrip", made |-> commit.timestamp,
                  out |-> CommitFromContent(commit.content.bytes, arg.now + 1)]
    /\ UNCHANGED <<arg, repoVars, concVars>>

InitObj ==
    /\ gitDir = FALSE
    /\ indexFile = NoFile
    /\ objects = EmptyStore
    /\ lastOp = NoOp
    /\ arg \in ObjInputs
    /\ res = NoOp
    /\ pc = <<>>
    /\ loc = <<>>

NextObj ==
    \/ RoundTrip
    \/ DeserializeRaw
    \/ DeserializeBytes
    \/ TreeByConstructor
    \/ TreeByAddEntry
    \/ TreeRoundTrip
    \/ CommitRoundTrip

SpecObj == InitObj /\ [][NextObj]_vars

----------------------------------------------------------------------------
(* Specification SpecTree: create_tree_from_index on the indexes that       *)
(* add_file leaves behind                                                   *)

\* Bound of the model: the longest index
MaxIndexLen == 2

\* the paths given to add_file: a, a/b, d/x, d/x/y, dd/b, and three that
\* name an existing file with an empty segment: dd//b, a/, /a
IndexPaths ==
    {<<97>>, <<97, SLASH, 98>>, <<100, SLASH, 120>>, <<100, SLASH, 120, SLASH, 121>>,
     <<100, 100, SLASH, 98>>, <<100, 100, SLASH, SLASH, 98>>, <<97, SLASH>>, <<SLASH, 97>>}

\* the calls of add_file that led to the index: <<path, content>>, no path twice
IndexListings ==
    {l \in SeqsUpTo(IndexPaths \X FileContents, MaxIndexLen) :
        \A i, j \in 1..Len(l) : i # j => l[i][1] # l[j][1]}

InitTree ==
    /\ gitDir = TRUE
    /\ \E l \in IndexListings :
          /\ indexFile = SaveIndex(NoFile, AddLoop(l, <<>>, EmptyStore).index)
          /\ objects = AddLoop(l, <<>>, EmptyStore).objs
    /\ lastOp = NoOp
    /\ arg = NoOp
    /\ res = NoOp
    /\ pc = <<>>
    /\ loc = <<>>

NextTree == BuildTree

SpecTree == InitTree /\ [][NextTree]_vars

----------------------------------------------------------------------------
(* Specification SpecIndex: save_index and load_index on one index file.    *)
(* arg tells how the file came to be; res is what load_index returned.      *)

\* the mappings add_file passes to save_index for the files of the
\* working directory
IndexMappings ==
    {AddLoop(l, <<>>, EmptyStore).index :
        l \in {m \in SeqsUpTo(WFiles \X FileContents, MaxIndexLen) :
                  \A i, j \in 1..Len(m) : i # j => m[i][1] # m[j][1]}}

\* save_index(index)
SaveAny(index) ==
    /\ indexFile' = SaveIndex(indexFile, index)
    /\ arg' = [kind |-> "saved", index |-> index]
    /\ res' = NoOp
    /\ UNCHANGED <<gitDir, objects, lastOp, concVars>>

\* write_text (line 173) interrupted: the file keeps the first n tokens
Truncate ==
    /\ indexFile.kind = "text"
    /\ \E n \in 0..(Len(indexFile.text) - 1) :
          indexFile' = TextFile(SubSeq(indexFile.text, 1, n))
    /\ arg' = [kind |-> "cut"]
    /\ res' = NoOp
    /\ UNCHANGED <<gitDir, objects, lastOp, concVars>>

\* load_index()
Load ==
    /\ res' = [op |-> "load_index", out |-> LoadIndex(indexFile)]
    /\ UNCHANGED <<arg, repoVars, concVars>>

InitIndex ==
    /\ gitDir = FALSE
    /\ indexFile = NoFile
    /\ objects = EmptyStore
    /\ lastOp = NoOp
    /\ arg = [kind |-> "nofile"]
    /\ res = NoOp
    /\ pc = <<>>
    /\ loc = <<>>

NextIndex ==
    \/ \E index \in IndexMappings : SaveAny(index)
    \/ Truncate
    \/ Load

SpecIndex == InitIndex /\ [][NextIndex]_vars

----------------------------------------------------------------------------
(* Specification SpecConc: two processes run add_file on one repository,   *)
(* without locking. A step is one access to the file system.               *)

Procs == {1, 2}

\* process 1 adds a, process 2 adds dd/b
ProcPath(p) == IF p = 1 THEN <<97>> ELSE <<100, 100, SLASH, 98>>

Local(content) ==
    [content |-> content, blob_hash |-> Hash(Blob(content)).val, index |-> <<>>,
     used |-> {}, dirs |-> <<>>, dir |-> <<>>, files |-> <<>>, removed |-> {}]

Goto(p, label) == pc' = [pc EXCEPT ![p] = label]

\* store_object: obj_file.exists()
CheckExists(p) ==
    /\ pc[p] = "exists"
    /\ Goto(p, IF Exists(objects, loc[p].blob_hash) THEN "load" ELSE "mkdir")
    /\ UNCHANGED <<gitDir, indexFile, objects, lastOp, loc, objVars>>

\* store_object: obj_dir.mkdir(exist_ok=True)
MakeDir(p) ==
    /\ pc[p] = "mkdir"
    /\ objects' = Mkdir(objects, BucketOf(loc[p].blob_hash))
    /\ Goto(p, "write")
    /\ UNCHANGED <<gitDir, indexFile, lastOp, loc, objVars>>

\* store_object: obj_file.write_bytes, FileNotFoundError when the bucket is gone
WriteObject(p) ==
    /\ pc[p] = "write"
    /\ IF BucketOf(loc[p].blob_hash) \in objects.dirs
       THEN /\ objects' = WriteBytes(objects, loc[p].blob_hash,
                                     Serialize(Blob(loc[p].content)).val)
            /\ Goto(p, "load")
       ELSE /\ UNCHANGED objects
            /\ Goto(p, "failed")
    /\ UNCHANGED <<gitDir, indexFile, lastOp, loc, objVars>>

\* add_file: index = self.load_index()
LoadStep(p) ==
    /\ pc[p] = "load"
    /\ loc' = [loc EXCEPT ![p].index = LoadIndex(indexFile)]
    /\ Goto(p, "save")
    /\ UNCHANGED <<gitDir, indexFile, objects, lastOp, objVars>>

\* add_file: index[path] = blob_hash; self.save_index(index)
SaveStep(p) ==
    /\ pc[p] = "save"
    /\ indexFile' = SaveIndex(indexFile, DictSet(loc[p].index, ProcPath(p), loc[p].blob_hash))
    /\ loc' = [loc EXCEPT ![p].index = DictSet(loc[p].index, ProcPath(p), loc[p].blob_hash)]
    /\ Goto(p, "gc_load")
    /\ UNCHANGED <<gitDir, objects, lastOp, objVars>>

\* gc: used_hashes = set(self.load_index().values())
GcLoad(p) ==
    /\ pc[p] = "gc_load"
    /\ loc' = [loc EXCEPT ![p].used = UsedHashes(LoadIndex(indexFile))]
    /\ Goto(p, "gc_list")
    /\ UNCHANGED <<gitDir, indexFile, objects, lastOp, objVars>>

\* gc: self.objects_dir.iterdir()
GcList(p) ==
    /\ pc[p] = "gc_list"
    /\ \E dirs \in Listings(objects.dirs) : loc' = [loc EXCEPT ![p].dirs = dirs]
    /\ Goto(p, "gc_dir")
    /\ UNCHANGED <<gitDir, indexFile, objects, lastOp, objVars>>

\* gc: the next bucket: is_dir(), the length of its name, obj_dir.iterdir()
GcDir(p) ==
    /\ pc[p] = "gc_dir"
    /\ IF loc[p].dirs = <<>>
       THEN /\ Goto(p, "done")
            /\ UNCHANGED loc
       ELSE LET obj_dir == loc[p].dirs[1]
            IN IF obj_dir \notin objects.dirs \/ Len(obj_dir) # 2
               THEN /\ loc' = [loc EXCEPT ![p].dirs = Tail(loc[p].dirs)]
                    /\ UNCHANGED pc
               ELSE /\ \E files \in Listings({f.name : f \in {g \in objects.files : g.dir = obj_dir}}) :
                          loc' = [loc EXCEPT ![p].dir = obj_dir, ![p].files = files]
                    /\ Goto(p, "gc_file")
    /\ UNCHANGED <<gitDir, indexFile, objects, lastOp, objVars>>

\* gc: the next file of the bucket: unlink() when its digest is not used,
\* FileNotFoundError when the file is gone
GcFile(p) ==
    /\ pc[p] = "gc_file"
    /\ IF loc[p].files = <<>>
       THEN /\ Goto(p, "gc_empty")
            /\ UNCHANGED <<loc, objects>>
       ELSE LET full_hash == loc[p].dir \o loc[p].files[1]
            IN IF full_hash \in loc[p].used
               THEN /\ loc' = [loc EXCEPT ![p].files = Tail(loc[p].files)]
                    /\ UNCHANGED <<pc, objects>>
               ELSE IF Exists(objects, full_hash)
                    THEN /\ objects' = [objects EXCEPT !.files =
                                           {f \in objects.files : f.dir \o f.name # full_hash}]
                         /\ loc' = [loc EXCEPT ![p].files = Tail(loc[p].files),
                                               ![p].removed = loc[p].removed \cup {full_hash}]
                         /\ UNCHANGED pc
                    ELSE /\ Goto(p, "failed")
                         /\ UNCHANGED <<loc, objects>>
    /\ UNCHANGED <<gitDir, indexFile, lastOp, objVars>>

\* gc: any(obj_dir.iterdir()), FileNotFoundError when the bucket is gone
GcEmpty(p) ==
    /\ pc[p] = "gc_empty"
    /\ IF loc[p].dir \notin objects.dirs THEN /\ Goto(p, "failed")
                                              /\ UNCHANGED loc
       ELSE IF \E f \in objects.files : f.dir = loc[p].dir
            THEN /\ loc' = [loc EXCEPT ![p].dirs = Tail(loc[p].dirs)]
                 /\ Goto(p, "gc_dir")
            ELSE /\ Goto(p, "gc_rmdir")
                 /\ UNCHANGED loc
    /\ UNCHANGED <<gitDir, indexFile, objects, lastOp, objVars>>

\* gc: obj_dir.rmdir(), an OSError when the bucket is gone or not empty
GcRmdir(p) ==
    /\ pc[p] = "gc_rmdir"
    /\ IF loc[p].dir \in objects.dirs /\ ~\E f \in objects.files : f.dir = loc[p].dir
       THEN /\ objects' = Rmdir(objects, loc[p].dir)
            /\ loc' = [loc EXCEPT ![p].dirs = Tail(loc[p].dirs)]
            /\ Goto(p, "gc_dir")
       ELSE /\ Goto(p, "failed")
            /\ UNCHANGED <<loc, objects>>
    /\ UNCHANGED <<gitDir, indexFile, lastOp, objVars>>

InitConc ==
    /\ gitDir = TRUE
    /\ indexFile = SaveIndex(NoFile, <<>>)
    /\ objects = EmptyStore
    /\ lastOp = NoOp
    /\ arg = NoOp
    /\ res = NoOp
    /\ pc = [p \in Procs |-> "exists"]
    /\ loc \in [Procs -> {Local(c) : c \in FileContents}]

NextConc ==
    \E p \in Procs :
        \/ CheckExists(p)
        \/ MakeDir(p)
        \/ WriteObject(p)
        \/ LoadStep(p)
        \/ SaveStep(p)
        \/ GcLoad(p)
        \/ GcList(p)
        \/ GcDir(p)
        \/ GcFile(p)
        \/ GcEmpty(p)
        \/ GcRmdir(p)

SpecConc == InitConc /\ [][NextConc]_vars

----------------------------------------------------------------------------
(* The digest of the model is as good as SHA-1 on the objects of the model *)

\* no two objects of the model share a digest
NoCollision ==
    \A x, y \in {o \in PutInputs : IsOk(Hash(o))} :
        Hash(x) = Hash(y) => (x.type = y.type /\ x.content = y.content)

\* every stored entry holds an object whose digest is the name of the entry
StoreSound ==
    \A f \in objects.files :
        /\ IsOk(Deserialize(f.data))
        /\ Hash(Deserialize(f.data).val) = Ok(f.dir \o f.name)

----------------------------------------------------------------------------
(* Properties of the object store, the garbage collector and the tree      *)
(* builder (specification Spec)                                            *)

IsPut(op) == op.op = "store_object"
IsGc(op) == op.op = "gc"
IsBuild(op) == op.op = "create_tree_from_index"

EntriesFor(objs, h) == {f \in objs.files : f.dir \o f.name = h}

\* a call of store_object on an object that was stored neither writes nor
\* changes the store, and the digest it returns names exactly one entry
PutState ==
    (IsPut(lastOp) /\ IsOk(lastOp.ret))
        => /\ Cardinality(EntriesFor(objects, lastOp.ret.val)) = 1
           /\ lastOp.existed => (~lastOp.wrote /\ ~lastOp.changed)

\* a call of store_object with the object of the call before it returns
\* the digest that call returned, and finds the entry stored
PutAgain ==
    (IsPut(lastOp) /\ IsPut(lastOp') /\ lastOp'.obj = lastOp.obj /\ IsOk(lastOp.ret))
        => (lastOp'.ret = lastOp.ret /\ lastOp'.existed /\ objects' = objects)

\* C1: store_object is idempotent. Called twice with the same object it
\* returns the same digest both times, the store holds exactly one entry
\* for that digest, and the second call neither writes nor changes the
\* store.
C1_PutIdempotent == []PutState /\ [][PutAgain]_vars

\* a store_object that found its entry stored and skipped the write
C1_Witness ==
    /\ IsPut(lastOp) /\ IsOk(lastOp.ret) /\ lastOp.existed /\ ~lastOp.wrote
    /\ Cardinality(EntriesFor(objects, lastOp.ret.val)) = 1

\* C2: after a gc that completes, a digest stored before the call is still
\* stored if and only if it is a value of the staging index.
C2_GcKeepsIndexValues ==
    [][(IsGc(lastOp') /\ IsOk(lastOp'.ret))
        => \A d \in Stored(objects) :
              d \in Stored(objects') <=> d \in Values(LoadIndex(indexFile'))]_vars

\* a gc that completed, kept a digest of the index and removed two others
C2_Witness ==
    /\ IsGc(lastOp) /\ IsOk(lastOp.ret)
    /\ Cardinality(lastOp.removed) >= 2
    /\ Values(LoadIndex(indexFile)) # {}
    /\ Values(LoadIndex(indexFile)) \subseteq Stored(objects)

\* C3: a gc that completes right after create_tree_from_index on a
\* non-empty index removes the tree just built: the digest the builder
\* returned is stored before the gc and not stored after it.
C3_GcRemovesBuiltTree ==
    [][(IsBuild(lastOp) /\ LoadIndex(indexFile) # <<>> /\ IsGc(lastOp') /\ IsOk(lastOp'.ret))
        => /\ IsOk(lastOp.ret)
           /\ Exists(objects, lastOp.ret.val)
           /\ ~Exists(objects', lastOp.ret.val)]_vars

\* The tree the specification describes for the index entries below one
\* directory: items are <<segments below the directory, digest>>
RECURSIVE ExpectedTree(_)
ExpectedTree(items) ==
    LET fileEntries == {<<MODE_FILE, it[1][1], it[2]>> : it \in {x \in items : Len(x[1]) = 1}}
        dirNames == {it[1][1] : it \in {x \in items : Len(x[1]) > 1}}
        below(d) == {<<Tail(it[1]), it[2]>> : it \in {x \in items : Len(x[1]) > 1 /\ x[1][1] = d}}
        dirEntries == {<<MODE_DIR, d, Hash(ExpectedTree(below(d))).val>> : d \in dirNames}
    IN GitObject(TREE, Bytes(SerializeEntries(SeqOf(fileEntries \cup dirEntries)).val))

IndexItems(index) == {<<Split(index[i][1], SLASH), index[i][2]>> : i \in 1..Len(index)}

\* an index with a root-level file and a nested path, and no name that is
\* both a file and a directory
MixedIndex(index) ==
    /\ \E it \in IndexItems(index) : Len(it[1]) = 1
    /\ \E it \in IndexItems(index) : Len(it[1]) > 1
    /\ \A x, y \in IndexItems(index) : x = y \/ ~IsPrefix(x[1], y[1])

\* C4: for an index mixing root-level files and nested paths,
\* create_tree_from_index returns the digest of a stored tree holding one
\* 100644 entry per root-level file and one 40000 entry per top-level
\* directory, whose digest is that of the tree built from the directory.
C4_BuilderBuildsRoot ==
    (IsBuild(lastOp) /\ MixedIndex(LoadIndex(indexFile)))
        => /\ IsOk(lastOp.ret)
           /\ lastOp.ret = Hash(ExpectedTree(IndexItems(LoadIndex(indexFile))))
           /\ Exists(objects, lastOp.ret.val)
           /\ StoredBytes(objects, lastOp.ret.val)
                = Serialize(ExpectedTree(IndexItems(LoadIndex(indexFile)))).val

\* C5: on an empty index create_tree_from_index does not fail: it stores a
\* tree with no entry and returns the digest of the tree with no entry.
C5_EmptyIndexEmptyTree ==
    (IsBuild(lastOp) /\ LoadIndex(indexFile) = <<>>)
        => /\ IsOk(lastOp.ret)
           /\ lastOp.ret = Hash(GitObject(TREE, Bytes(<<>>)))
           /\ Exists(objects, lastOp.ret.val)

\* C13: when the deletion of one unused object fails during gc, the sweep
\* goes on: after the call, every stored object that is not a value of the
\* index is one whose deletion failed.
C13_GcContinuesAfterFailure ==
    (IsGc(lastOp) /\ lastOp.failing # {})
        => (Stored(objects) \ Values(LoadIndex(indexFile))) \subseteq lastOp.failing

\* the mapping the text of the index file denotes
Persisted(file) == JsonLoads(file.text).val

\* a call of add_file leaves path mapped to the digest of the blob of the
\* content, and every other path as it was
AddFileFrame ==
    lastOp'.op = "add_file"
        => LET old == Persisted(indexFile)
               new == Persisted(indexFile')
               path == lastOp'.path
           IN /\ Keys(new) = Keys(old) \cup {path}
              /\ Get(new, path) = Hash(Blob(lastOp'.content)).val
              /\ \A k \in Keys(old) \ {path} : Get(new, k) = Get(old, k)

\* C18: add_file(path) persists an index that maps path to the digest of
\* the blob of the file's content and leaves the digest of every other
\* path unchanged; create_tree_from_index and gc leave the index file as
\* it was.
C18_IndexFrame ==
    [][/\ AddFileFrame
       /\ lastOp'.op \in {"create_tree_from_index", "gc"} => indexFile' = indexFile]_vars

\* add_file has staged a path, and another path keeps another digest
C18_Witness ==
    /\ lastOp.op = "add_file" /\ IsOk(lastOp.ret)
    /\ Get(Persisted(indexFile), lastOp.path) = Hash(Blob(lastOp.content)).val
    /\ \E k \in Keys(Persisted(indexFile)) :
          k # lastOp.path /\ Get(Persisted(indexFile), k) # Hash(Blob(lastOp.content)).val

\* C19: after a gc that completes without a failed deletion, no bucket (a
\* directory of two characters under objects) is empty.
C19_NoEmptyBucket ==
    (IsGc(lastOp) /\ IsOk(lastOp.ret))
        => \A d \in objects.dirs : Len(d) = 2 => \E f \in objects.files : f.dir = d

\* a gc has emptied and removed one bucket and left another
C19_Witness ==
    /\ IsGc(lastOp) /\ IsOk(lastOp.ret)
    /\ \E h \in lastOp.removed : BucketOf(h) \notin objects.dirs
    /\ objects.dirs # {}

\* C20: after an add_file or add_directory that succeeds, the digests in
\* the object store are the values of the persisted index: every staged
\* digest is stored, and nothing else is.
C20_StoreIsIndexValues ==
    (lastOp.op \in {"add_file", "add_directory"} /\ IsOk(lastOp.ret))
        => Stored(objects) = Values(Persisted(indexFile))

\* add_file has replaced the content of a path: the index holds two paths
\* with one digest, the blob of the other content is not stored
C20_Witness ==
    /\ lastOp.op = "add_file" /\ IsOk(lastOp.ret)
    /\ Cardinality(Keys(Persisted(indexFile))) >= 2
    /\ Stored(objects) = {Hash(Blob(lastOp.content)).val}
    /\ Values(Persisted(indexFile)) = Stored(objects)

----------------------------------------------------------------------------
(* Properties of the tree builder on any index (specification SpecTree)    *)

\* a path of the index has an empty segment
EmptySegment(index) ==
    \E it \in IndexItems(index) : \E i \in 1..Len(it[1]) : it[1][i] = <<>>

\* a path of the index is a directory of another path of the index
Collides(index) ==
    \E x, y \in IndexItems(index) : x[1] # y[1] /\ IsPrefix(x[1], y[1])

\* the stored objects of type tree
StoredTrees(objs) == {f \in objs.files : Deserialize(f.data).val.type = TREE}

\* the digests the stored trees give for their subdirectories
DirRefs(objs) ==
    UNION {LET entries == FromContentLoop(Deserialize(f.data).val.content.bytes, 0, <<>>).val
           IN {entries[i][3] : i \in {j \in 1..Len(entries) : entries[j][1] = MODE_DIR}}
           : f \in StoredTrees(objs)}

\* C11: when a path of the index has an empty segment (a leading, a
\* trailing or a double slash), create_tree_from_index fails with
\* InvalidPath and stores no tree.
C11_EmptySegmentInvalidPath ==
    (IsBuild(lastOp) /\ EmptySegment(LoadIndex(indexFile)))
        => /\ IsErr(lastOp.ret) /\ lastOp.ret.err = "InvalidPath"
           /\ StoredTrees(objects) = {}

\* C12: when a name of the index is both a file and a directory (a and
\* a/b, d/x and d/x/y), in either order of the keys,
\* create_tree_from_index fails with InvalidPath.
C12_CollisionInvalidPath ==
    (IsBuild(lastOp) /\ Collides(LoadIndex(indexFile)))
        => (IsErr(lastOp.ret) /\ lastOp.ret.err = "InvalidPath")

\* an index with a nested path, no empty segment and no collision
NestedIndex(index) ==
    /\ \E it \in IndexItems(index) : Len(it[1]) > 1
    /\ ~EmptySegment(index) /\ ~Collides(index)

----------------------------------------------------------------------------
(* Properties of the index file (specification SpecIndex)                  *)

\* C14: load_index returns the empty mapping when there is no index file
\* and when the text of the file cannot be parsed, and otherwise the
\* mapping last given to save_index, keys, values and order; it raises in
\* no case.
C14_LoadIndexTotal ==
    res.op = "load_index"
        => /\ arg.kind = "nofile" => (indexFile.kind = "absent" /\ res.out = <<>>)
           /\ arg.kind = "cut" => (IsErr(JsonLoads(indexFile.text)) /\ res.out = <<>>)
           /\ arg.kind = "saved" => res.out = arg.index

\* load_index gave back a saved mapping of two paths
C14_Witness ==
    /\ res.op = "load_index" /\ arg.kind = "saved"
    /\ Len(arg.index) = 2 /\ res.out = arg.index

\* load_index gave the empty mapping for a file cut after its first entry
CutWitness ==
    /\ res.op = "load_index" /\ arg.kind = "cut"
    /\ Len(indexFile.text) = 4 /\ res.out = <<>>

----------------------------------------------------------------------------
(* Properties of the object model (specification SpecObj)                  *)

SameTree(x, y) ==
    /\ IsOk(x.built) /\ IsOk(y.built)
    /\ x.content.kind = "bytes" /\ x.content = y.content
    /\ IsOk(x.digest) /\ x.digest = y.digest
    /\ IsOk(x.stored.ret) /\ x.stored.objs = y.stored.objs

\* C6: a Tree of the entries [A, B] and a Tree of [B, A], given to the
\* constructor or appended with add_entry, have the same content bytes, the
\* same digest and the same stored bytes.
C6_TreeOrderIndependent ==
    (res.op \in {"tree_init", "add_entry"} /\ Len(arg.entries) = 2)
        => SameTree(res.fwd, res.rev)

\* C7: deserialize(serialize(type, content)) gives back the type and the
\* content, for the types blob, tree and commit and any content.
C7_SerializeRoundTrip ==
    res.op = "roundtrip"
        => /\ IsOk(res.out)
           /\ res.out.val.type = arg.type
           /\ res.out.val.content = Bytes(arg.content)

\* a round trip of a content that holds a NUL byte after another byte
C7_Witness ==
    /\ res.op = "roundtrip" /\ IsOk(res.out)
    /\ Len(arg.content) = 2 /\ arg.content[2] = NUL
    /\ res.out.val.content = Bytes(arg.content)

\* a decompressed stream that deserialize is to reject: no NUL, a header
\* that is not "<token> <integer>", or a length other than the declared one
Malformed(d) ==
    LET nul == Find(d, NUL, 0)
        parts == Split(SliceTo(d, nul), SP)
    IN \/ nul = -1
       \/ Len(parts) # 2
       \/ parts[1] = <<>>
       \/ ~IsInteger(parts[2])
       \/ IntOf(parts[2]) # Len(d) - (nul + 1)

\* C8: deserialize fails, and returns no object, when the decompressed
\* bytes have no NUL, the header is not "<token> <integer>", or the bytes
\* after the NUL are not as many as the header declares.
C8_DeserializeRejectsMalformed ==
    (res.op = "deserialize" /\ Malformed(arg.data)) => IsErr(res.out)

UniqueNames(entries) ==
    \A i, j \in 1..Len(entries) : i # j => entries[i][2] # entries[j][2]

\* C15: for a list of (mode, name, digest) entries with unique names,
\* Tree.from_content of the bytes _serialize_entries gives for the list
\* returns a Tree, and its entries are the entries of the list.
C15_TreeRoundTrip ==
    (res.op = "tree_roundtrip" /\ UniqueNames(arg.entries))
        => /\ IsOk(res.out)
           /\ {res.out.val.entries[i] : i \in 1..Len(res.out.val.entries)}
                = {arg.entries[i] : i \in 1..Len(arg.entries)}

\* C16: Commit.from_content of the content of a Commit returns a Commit
\* with the same tree digest, parents, author, committer, message and
\* timestamp, for any list of parents and any timestamp, 0 included.
C16_CommitRoundTrip ==
    res.op = "commit_roundtrip"
        => /\ IsOk(res.out)
           /\ res.out.val.tree_hash = PyStr(arg.tree_hash)
           /\ res.out.val.parent_hashes = arg.parent_hashes
           /\ res.out.val.author = PyStr(arg.author)
           /\ res.out.val.committer = PyStr(arg.committer)
           /\ res.out.val.message = PyStr(arg.message)
           /\ res.out.val.timestamp = PyInt(arg.timestamp)

\* the same round trip for the timestamps other than 0
CommitRoundTripNonZero ==
    (res.op = "commit_roundtrip" /\ arg.timestamp # 0)
        => /\ IsOk(res.out)
           /\ res.out.val.tree_hash = PyStr(arg.tree_hash)
           /\ res.out.val.parent_hashes = arg.parent_hashes
           /\ res.out.val.author = PyStr(arg.author)
           /\ res.out.val.committer = PyStr(arg.committer)
           /\ res.out.val.message = PyStr(arg.message)
           /\ res.out.val.timestamp = PyInt(arg.timestamp)

----------------------------------------------------------------------------
(* Properties of two processes without locking (specification SpecConc)    *)

Saved(p) == pc[p] \in {"gc_load", "gc_list", "gc_dir", "gc_file", "gc_empty", "gc_rmdir",
                       "done", "failed"} /\ ProcPath(p) \in Keys(loc[p].index)

Dangling == Values(LoadIndex(indexFile)) \ Stored(objects)

\* C9: a gc sweep interleaved with an add can delete the blob the other
\* process has stored and is about to reference. The index holds a digest
\* that is not stored only when it is the blob one process staged and the
\* sweep of the other process removed it; C9_Witness is such a state.
C9_DanglingOnlyByRace ==
    \A d \in Dangling :
        \E p, q \in Procs : p # q /\ loc[p].blob_hash = d /\ d \in loc[q].removed

\* both processes have ended and the index holds a digest that is not stored
C9_Witness ==
    /\ \A p \in Procs : pc[p] = "done"
    /\ Dangling # {}

\* C10: the later save overwrites the earlier one, without a merge. Once a
\* process has saved, the persisted index is the mapping one process loaded
\* with its own path set; C10_Witness is a state where both processes have
\* saved and the persisted index holds one of the two paths.
C10_LastWriterWins ==
    (\E p \in Procs : Saved(p))
        => \E p \in Procs : Saved(p) /\ LoadIndex(indexFile) = loc[p].index

\* both processes have ended and the index holds only one of the two paths
C10_Witness ==
    /\ \A p \in Procs : pc[p] = "done"
    /\ Cardinality(Keys(LoadIndex(indexFile))) = 1

====
